---- MODULE Spec2Model ----
(***************************************************************************)
(* A model of app.py of tbn-scraper: the Streamlit script that obtains a   *)
(* Selenium session (build_driver), logs in (login_and_get_driver or the   *)
(* manual path), scrapes twelve months per year                            *)
(* (collect_all_data_for_year), aggregates them                            *)
(* (generate_daily_totals_excel) and collects the artifacts.               *)
(*                                                                         *)
(* The script is one sequential program; pc is its position.  Calls into   *)
(* Selenium, the portal and the file system are the environment: each      *)
(* action draws their outcome from a small set.                            *)
(***************************************************************************)
EXTENDS Integers, Sequences, FiniteSets, TLC

(***************************************************************************)
(* Bounds of the model (not program constants).                            *)
(***************************************************************************)
\* how many distinct years the "Years to scrape" input may name
MaxYears == 2
\* how many times the user clicks "Run Scrape" (script executions)
MaxRuns == 2
\* how many rows the data frame given to generate_daily_totals_excel has
MaxRows == 2
\* how many items the text given to parse_years_input or to
\* validate_email_list has
MaxItems == 2
\* how many times _ensure_cft is called
MaxCalls == 3

(***************************************************************************)
(* Program constants.                                                      *)
(***************************************************************************)
\* parse_years_input keeps 2000 <= y <= 2100
MinYear == 2000
MaxYear == 2100
\* collect_all_data_for_year: range(1, 13)
NumMonths == 12
\* generate_daily_totals_excel: range(1, 32)
NumDays == 31

VARIABLES
    inp,          \* the sidebar widgets' values for this session (inputs)
    runs,         \* script executions started so far
    clicked,      \* the button whose click started the current execution
    proceed_shown,\* the "I'm logged in" button is on the page
    pc,           \* position of the script
    years,        \* years = parse_years_input(years_text)
    to_emails,    \* to_emails: the validated recipients
    bd,           \* frame of build_driver
    lg,           \* frame of login_and_get_driver
    sessions,     \* every browser session ever created: [live, visible]
    drv,          \* the script's variable drv: index into sessions, 0 = unbound
    exc,          \* the exception in flight, or NoExc
    ui,           \* messages shown with st.error / st.warning / st.success
    idx,          \* per-year loop: enumerate(years, start=1)
    yr_frame,     \* frame of collect_all_data_for_year
    data_df,      \* data_df: the year's dataset, a list of month records
    last_attempt, \* the latest scrape_month_data call of this run: <<year, month>>
    attachments,  \* attachments: list of file names
    summary_rows, \* summary_rows: list of years
    portal,       \* the portal: which months' reports carry a table
    mail,         \* the delivery sink: the messages this execution handed over
    new_data,     \* generate_daily_totals_excel: the argument new_data
    old_raw_df,   \* generate_daily_totals_excel: the argument old_raw_df
    excel,        \* generate_daily_totals_excel: what it computed
    parse_call,   \* a call of parse_years_input: its argument and outcome
    email_call,   \* a call of validate_email_list: its argument and outcome
    cft           \* _ensure_cft: the cache directory and the calls made

vars == <<inp, runs, clicked, proceed_shown, pc, years, to_emails, mail, bd, lg, sessions, drv,
          exc, ui, idx, yr_frame, data_df, last_attempt, attachments,
          summary_rows, portal, new_data, old_raw_df, parse_call, email_call, cft,
          excel>>

(***************************************************************************)
(* Small helpers.                                                          *)
(***************************************************************************)
Range(s) == {s[i] : i \in 1..Len(s)}

Min(S) == CHOOSE x \in S : \A y \in S : x <= y

RECURSIVE Sorted(_)
\* sorted(set(...)) of a finite set of integers
Sorted(S) == IF S = {} THEN <<>> ELSE <<Min(S)>> \o Sorted(S \ {Min(S)})

Last(s) == s[Len(s)]

(***************************************************************************)
(* Exceptions.  detail is what the exception's message embeds.             *)
(***************************************************************************)
NoExc == [type |-> "none", at |-> "none", detail |-> <<>>]

Err(type, at) == [type |-> type, at |-> at, detail |-> <<>>]

(***************************************************************************)
(* parse_years_input.  The text is a list of comma-separated parts; a part *)
(* is a single token or "a-b"; a token is a number or not digits.          *)
(***************************************************************************)
\* digits: str.isdigit() holds of the token(s); int_ok: int() accepts them
Single(y) ==
    [kind |-> "single", a |-> y, b |-> y, digits |-> TRUE, int_ok |-> TRUE]
Span(lo, hi) ==
    [kind |-> "range", a |-> lo, b |-> hi, digits |-> TRUE, int_ok |-> TRUE]
Junk ==
    [kind |-> "single", a |-> 0, b |-> 0, digits |-> FALSE, int_ok |-> FALSE]
\* a token of characters str.isdigit() accepts and int() rejects (a
\* superscript digit)
NotDecimal ==
    [kind |-> "single", a |-> 0, b |-> 0, digits |-> TRUE, int_ok |-> FALSE]

\* int(a), int(b) or int(part) raises ValueError (lines 77 and 82)
PartRaises(part) == part.digits /\ ~part.int_ok

\* the years one part contributes (lines 74-82)
PartYears(part) ==
    IF part.kind = "range"
    THEN IF part.digits /\ part.a <= part.b THEN part.a .. part.b ELSE {}
    ELSE IF part.digits THEN {part.a} ELSE {}

parse_years_input(text) ==
    LET named == UNION {PartYears(text[i]) : i \in 1..Len(text)}
    IN  Sorted({y \in named : MinYear <= y /\ y <= MaxYear})

(***************************************************************************)
(* validate_email_list (lines 86-91).  The raw text is the list of its     *)
(* parts between the separators ";" and ","; a part is a list of           *)
(* characters.                                                             *)
(***************************************************************************)
IsSpace(c) == c = " "

RECURSIVE LStrip(_)
LStrip(str) ==
    IF str # <<>> /\ IsSpace(Head(str)) THEN LStrip(Tail(str)) ELSE str

RECURSIVE RStrip(_)
RStrip(str) ==
    IF str # <<>> /\ IsSpace(str[Len(str)])
    THEN RStrip(SubSeq(str, 1, Len(str) - 1))
    ELSE str

\* e.strip()
Strip(str) == RStrip(LStrip(str))

\* EMAIL_RE = ^[^@\s]+@[^@\s]+\.[^@\s]+$ (line 69): one "@", after at least
\* one character; a "." with at least one character on each side after the
\* "@"; no white space
EmailMatches(e) ==
    \E i \in 1..Len(e), j \in 1..Len(e) :
        /\ e[i] = "@"
        /\ e[j] = "."
        /\ 1 < i
        /\ i + 1 < j
        /\ j < Len(e)
        /\ \A k \in 1..Len(e) : ~IsSpace(e[k]) /\ (e[k] = "@" => k = i)

\* emails = [e.strip() for e in re.split(r"[;,]", raw) if e.strip()]
StrippedParts(raw) ==
    LET NotEmpty(e) == e # <<>>
    IN  SelectSeq([i \in 1..Len(raw) |-> Strip(raw[i])], NotEmpty)

\* a faulty variant: only the first entry that does not match is kept
FirstBadEntry(emails) ==
    LET IsBad(e) == ~EmailMatches(e)
        all_bad == SelectSeq(emails, IsBad)
    IN  IF all_bad = <<>> THEN <<>> ELSE <<Head(all_bad)>>

\* bad = [e for e in emails if not EMAIL_RE.match(e)] (line 88)
BadEntries(emails) ==
    LET IsBad(e) == ~EmailMatches(e)
    IN  SelectSeq(emails, IsBad)

\* validate_email_list(raw): raises ValueError naming the bad entries, or
\* returns the entries
validate_email_list(raw) ==
    LET emails == StrippedParts(raw)
        bad == BadEntries(emails)
    IN  IF bad # <<>>
        THEN [raised |-> TRUE, emails |-> <<>>, bad |-> bad]
        ELSE [raised |-> FALSE, emails |-> emails, bad |-> <<>>]

\* email_text.strip() is not empty: the text has a separator or a part that
\* is not blank
TextNotBlank(raw) == Len(raw) > 1 \/ (Len(raw) = 1 /\ Strip(raw[1]) # <<>>)

(***************************************************************************)
(* The two helpers on the characters of their argument.  A text is a list  *)
(* of one-character strings; "sup2" stands for the superscript two, a      *)
(* character str.isdigit() accepts and int() does not.                     *)
(***************************************************************************)
RECURSIVE Split(_, _)
\* str.split(",") and re.split(r"[;,]", str): the pieces between separators
Split(str, seps) ==
    IF \A i \in 1..Len(str) : str[i] \notin seps
    THEN <<str>>
    ELSE LET i == CHOOSE k \in 1..Len(str) :
                     /\ str[k] \in seps
                     /\ \A j \in 1..(k - 1) : str[j] \notin seps
         IN  <<SubSeq(str, 1, i - 1)>>
                 \o Split(SubSeq(str, i + 1, Len(str)), seps)

\* part.split("-", 1) of a part that holds a "-": the text before the first
\* "-" and the text after it
SplitOnce(str, sep) ==
    LET i == CHOOSE k \in 1..Len(str) :
                 /\ str[k] = sep
                 /\ \A j \in 1..(k - 1) : str[j] # sep
    IN  <<SubSeq(str, 1, i - 1), SubSeq(str, i + 1, Len(str))>>

Decimals == <<"0", "1", "2", "3", "4", "5", "6", "7", "8", "9">>

DecimalValue(c) == (CHOOSE k \in 1..Len(Decimals) : Decimals[k] = c) - 1

IsDecimal(c) == c \in Range(Decimals)

\* str.isdigit(): not empty, and every character is a digit
isdigit(str) ==
    str # <<>> /\ \A i \in 1..Len(str) : IsDecimal(str[i]) \/ str[i] = "sup2"

\* int(str) of a text that passed isdigit() accepts decimal digits only
IntAccepts(str) == \A i \in 1..Len(str) : IsDecimal(str[i])

RECURSIVE int(_)
\* int(str) of a text of decimal digits
int(str) ==
    IF str = <<>> THEN 0
    ELSE 10 * int(SubSeq(str, 1, Len(str) - 1)) + DecimalValue(str[Len(str)])

\* lines 74-82 on one stripped part: what the part is taken for
ToPart(part) ==
    IF "-" \in Range(part)
    THEN LET ab == SplitOnce(part, "-")
             a == Strip(ab[1])
             b == Strip(ab[2])
             digits == isdigit(a) /\ isdigit(b)
             int_ok == digits /\ IntAccepts(a) /\ IntAccepts(b)
         IN  [kind |-> "range", a |-> IF int_ok THEN int(a) ELSE 0,
              b |-> IF int_ok THEN int(b) ELSE 0,
              digits |-> digits, int_ok |-> int_ok]
    ELSE LET digits == isdigit(part)
             int_ok == digits /\ IntAccepts(part)
             y == IF int_ok THEN int(part) ELSE 0
         IN  [kind |-> "single", a |-> y, b |-> y,
              digits |-> digits, int_ok |-> int_ok]

\* [p.strip() for p in text.split(",") if p.strip()] (line 73)
YearParts(text) ==
    LET pieces == Split(text, {","})
        NotEmpty(p) == p # <<>>
        stripped == SelectSeq([i \in 1..Len(pieces) |-> Strip(pieces[i])],
                              NotEmpty)
    IN  [i \in 1..Len(stripped) |-> ToPart(stripped[i])]

\* parse_years_input(text) on the characters of text: the list it returns,
\* or the ValueError of int()
ParseYears(text) ==
    LET parts == YearParts(text)
    IN  IF \E i \in 1..Len(parts) : PartRaises(parts[i])
        THEN [raised |-> TRUE, years |-> <<>>]
        ELSE [raised |-> FALSE, years |-> parse_years_input(parts)]

\* validate_email_list(raw) on the characters of raw
ValidateEmails(raw) == validate_email_list(Split(raw, {";", ","}))

\* the frame of a call of parse_years_input
ParseIdle == [text |-> <<>>, state |-> "idle", years |-> <<>>]

\* the frame of a call of validate_email_list; items and seps are the
\* pieces the argument was typed as
EmailIdle == [items |-> <<>>, raw |-> <<>>, state |-> "idle",
              emails |-> <<>>, bad |-> <<>>]

(***************************************************************************)
(* _ensure_cft (lines 150-275).  The cache directory ~/.cache/cft holds    *)
(* one version_dir per (version, platform tag); of a version_dir the model *)
(* keeps where under chrome/ and chromedriver/ a file with a matching name *)
(* lies (the archive's folder layout), or "none".  The metadata request,   *)
(* the two downloads and the two extractions are the environment.          *)
(***************************************************************************)
\* versions the Stable channel of the metadata may name
Versions == {"v1", "v2"}

\* what _platform_tag returns on the machines the calls are explored on
Tags == {"linux64", "mac-arm64"}

\* folder layouts an archive may have; "none": no file with a matching name
Layouts == {"flat", "nested"}

NoBin == "none"

EmptyDir == [chrome |-> NoBin, driver |-> NoBin]

\* scan_for(names, root) (lines 183-195): the path of the first matching
\* file under root, or None
scan_for(tag, version, root, dir) ==
    IF dir[root] = NoBin THEN NoBin ELSE <<version, tag, root, dir[root]>>

\* a faulty variant: the binaries already extracted are never reused
FastPathNever(chrome_bin, driver_bin) == TRUE

\* if not chrome_bin or not driver_bin (line 207)
NeedsInstall(chrome_bin, driver_bin) == chrome_bin = NoBin \/ driver_bin = NoBin

\* what the network and the archives do during one call: the metadata
\* request (failed, or the Stable version and whether it lists the tag),
\* the downloads, the extraction and the layout of each archive
CftEnvs ==
    [meta : {"failed", "ok"}, stable : Versions, listed : BOOLEAN,
     download : {"failed", "ok"},
     extract : {"chrome_failed", "driver_failed", "ok"},
     chrome : Layouts \cup {NoBin}, driver : Layouts \cup {NoBin}]

NoReturn == [chrome_bin |-> NoBin, driver_bin |-> NoBin, version_dir |-> <<>>]

\* how a call ended: downloads and extractions count the _download and
\* extractall calls that completed
CftCall(cache, outcome, version, downloads, extractions, ret) ==
    [cache |-> cache, outcome |-> outcome, version |-> version,
     downloads |-> downloads, extractions |-> extractions, ret |-> ret]

\* lines 240-275 on the directory dir: the scan, the final check, the
\* return
CftAfterInstall(cache, tag, v, dir, downloads, extractions) ==
    LET chrome_bin == scan_for(tag, v, "chrome", dir)
        driver_bin == scan_for(tag, v, "driver", dir)
        stored == [cache EXCEPT ![v] = dir]
    IN  IF chrome_bin = NoBin \/ driver_bin = NoBin
        THEN CftCall(stored, "not_found", v, downloads, extractions, NoReturn)
        ELSE CftCall(stored, "returned", v, downloads, extractions,
                     [chrome_bin |-> chrome_bin, driver_bin |-> driver_bin,
                      version_dir |-> <<v, tag>>])

\* _ensure_cft(): the cache it leaves and how it ends
ensure_cft(cache, tag, env) ==
    LET v == env.stable
        chrome_bin == scan_for(tag, v, "chrome", cache[v])
        driver_bin == scan_for(tag, v, "driver", cache[v])
        cleaned == [cache EXCEPT ![v] = EmptyDir]
    IN  IF env.meta = "failed"
        THEN CftCall(cache, "metadata_failed", "none", 0, 0, NoReturn)
        ELSE IF ~env.listed
        THEN CftCall(cache, "no_platform", "none", 0, 0, NoReturn)
        ELSE IF ~NeedsInstall(chrome_bin, driver_bin)
        THEN CftAfterInstall(cache, tag, v, cache[v], 0, 0)
        ELSE IF env.download = "failed"
        THEN CftCall(cleaned, "download_failed", v, 0, 0, NoReturn)
        ELSE IF env.extract = "chrome_failed"
        THEN CftCall(cleaned, "extract_failed", v, 2, 0, NoReturn)
        ELSE IF env.extract = "driver_failed"
        THEN CftCall([cache EXCEPT ![v] = [chrome |-> env.chrome,
                                           driver |-> NoBin]],
                     "extract_failed", v, 2, 1, NoReturn)
        ELSE CftAfterInstall(cache, tag, v,
                             [chrome |-> env.chrome, driver |-> env.driver],
                             2, 2)

NoCftCall == CftCall(<<>>, "none", "none", 0, 0, NoReturn)

\* the state of the cache and of the calls made: first[v] is what the
\* first successful call for version v returned, after_success whether the
\* latest call came after such a call for its version
CftIdle ==
    [tag |-> "linux64", cache |-> [v \in Versions |-> EmptyDir], calls |-> 0,
     first |-> [v \in Versions |-> NoReturn], after_success |-> FALSE,
     last |-> NoCftCall]

\* the helper frames of a state in which no helper is being explored
HelpersIdle ==
    /\ parse_call = ParseIdle
    /\ email_call = EmailIdle
    /\ cft = CftIdle

(***************************************************************************)
(* build_driver.                                                           *)
(***************************************************************************)
Engines == {"try_chrome_system", "try_chrome_cft", "try_firefox", "try_edge"}

BrowserChoices == {"auto", "chrome", "firefox", "edge"}

\* a faulty variant of the table: the fallback starts at Chrome for Testing
AttemptsForSwapped(preferred) ==
    CASE preferred = "firefox" ->
            <<"try_firefox", "try_chrome_cft", "try_chrome_system", "try_edge">>
      [] preferred = "edge" ->
            <<"try_edge", "try_chrome_cft", "try_chrome_system", "try_firefox">>
      [] OTHER ->
            <<"try_chrome_system", "try_chrome_cft", "try_firefox", "try_edge">>

\* attempts (lines 355-363)
AttemptsFor(preferred) ==
    CASE preferred = "chrome" ->
            <<"try_chrome_system", "try_chrome_cft", "try_firefox", "try_edge">>
      [] preferred = "firefox" ->
            <<"try_firefox", "try_chrome_system", "try_chrome_cft", "try_edge">>
      [] preferred = "edge" ->
            <<"try_edge", "try_chrome_system", "try_chrome_cft", "try_firefox">>
      [] OTHER ->
            <<"try_chrome_system", "try_chrome_cft", "try_firefox", "try_edge">>

\* what launching an engine can raise: try_chrome_cft also runs _ensure_cft,
\* which raises RuntimeError; the webdriver constructors raise
\* WebDriverException
EngineErrors(fn) ==
    IF fn = "try_chrome_cft" THEN {"RuntimeError", "WebDriverException"}
    ELSE {"WebDriverException"}

BdIdle == [preferred |-> "auto", visible |-> FALSE, caller |-> "none",
           attempts |-> <<>>, i |-> 0, tried |-> <<>>, warned |-> <<>>,
           last_err |-> NoExc, result |-> 0]

\* entering build_driver(preferred, manual_visible) from caller
BdEnter(preferred, manual_visible, caller) ==
    [preferred |-> preferred, visible |-> manual_visible, caller |-> caller,
     attempts |-> AttemptsFor(preferred), i |-> 1, tried |-> <<>>,
     warned |-> <<>>, last_err |-> NoExc, result |-> 0]

\* a faulty variant of the except clause: only the first failure is kept
KeepFirstErr(old, e) == IF old = NoExc THEN e ELSE old

\* except Exception as e: last_err = e (line 372)
KeepLastErr(old, e) == e

\* raise RuntimeError(f"All browser attempts failed. Last error:\n{last_err}")
AllFailedError(last_err) ==
    [type |-> "RuntimeError", at |-> "build_driver", detail |-> <<last_err>>]

(***************************************************************************)
(* generate_daily_totals_excel, the aggregation (lines 475-494).           *)
(*                                                                         *)
(* new_data is a pandas DataFrame: a list of rows over the columns Month,  *)
(* 'Vehicle Types' and the day columns TableDays; a cell is a number, NaN  *)
(* (the cell is missing) or text that is not a number.  A label is NaN or  *)
(* a string, kept as its list of characters.                               *)
(***************************************************************************)
Num(n) == [k |-> "num", v |-> n]
NaN == [k |-> "nan", v |-> 0]
Text == [k |-> "text", v |-> 0]

\* the day columns the frames of the model carry; every other day of
\* 1..31 is a column the frame does not have
TableDays == {1, 2}

Label(chars) == [na |-> FALSE, chars |-> chars]
NoLabel == [na |-> TRUE, chars |-> <<>>]

\* str.upper(), for the letters the labels use
UpperChar(c) ==
    CASE c = "a" -> "A" [] c = "c" -> "C" [] c = "e" -> "E" [] c = "h" -> "H"
      [] c = "i" -> "I" [] c = "l" -> "L" [] c = "o" -> "O" [] c = "r" -> "R"
      [] c = "t" -> "T" [] c = "w" -> "W"
      [] OTHER -> c

Upper(str) == [i \in 1..Len(str) |-> UpperChar(str[i])]

\* pat occurs in str
Contains(str, pat) ==
    \E i \in 1..(Len(str) - Len(pat) + 1) :
        \A j \in 1..Len(pat) : str[i + j - 1] = pat[j]

TOTAL == <<"T", "O", "T", "A", "L">>

Wheelchair == <<"W", "h", "e", "e", "l", "c", "h", "a", "i", "r">>

\* sub['Vehicle Types'].str.upper().str.contains("TOTAL", na=False)
IsTotalLabel(lab) == ~lab.na /\ Contains(Upper(lab.chars), TOTAL)

\* sub['Vehicle Types'].str.contains("Wheelchair", case=False, na=False)
IsWheelchairLabel(lab) == ~lab.na /\ Contains(Upper(lab.chars), Upper(Wheelchair))

\* new_data[new_data['Month'] == m]
SubFrame(frame, m) ==
    LET InMonth(row) == row.Month = m IN SelectSeq(frame, InMonth)

TotalRows(sub) ==
    LET IsTotal(row) == IsTotalLabel(row.label) IN SelectSeq(sub, IsTotal)

WheelchairRows(sub) ==
    LET IsWc(row) == IsWheelchairLabel(row.label) IN SelectSeq(sub, IsWc)

\* the dtype of a day column is numeric unless a cell of it, in any row of
\* the frame, is text
ColumnNumeric(frame, d) ==
    \A i \in 1..Len(frame) : frame[i].cells[d].k # "text"

Value(v) == [ok |-> TRUE, v |-> v]
ValueError == [ok |-> FALSE, v |-> 0]

\* int(x or 0) of a cell: NaN is truthy and int(NaN) raises, int of text
\* that is not a number raises
IntOrZero(cell) == IF cell.k = "num" THEN Value(cell.v) ELSE ValueError

\* int(row.get(str(d), 0) or 0) for the row picked with iloc[0]
RowDay(row, d) ==
    IF d \in TableDays THEN IntOrZero(row.cells[d]) ELSE Value(0)

RECURSIVE SumCells(_, _)
\* the sum of a column over the rows, NaN skipped
SumCells(sub, d) ==
    IF sub = <<>> THEN 0
    ELSE (IF Head(sub).cells[d].k = "num" THEN Head(sub).cells[d].v ELSE 0)
         + SumCells(Tail(sub), d)

\* sub[days].sum(numeric_only=True).get(str(d), 0): columns whose dtype is
\* not numeric are left out of the sum
SumDay(frame, sub, d) ==
    IF d \in TableDays /\ ColumnNumeric(frame, d)
    THEN Value(SumCells(sub, d))
    ELSE Value(0)

\* the day values of a month, from its first total row or else the sums
DayValues(frame, sub, rows) ==
    [d \in 1..NumDays |->
        IF rows # <<>> THEN RowDay(rows[1], d) ELSE SumDay(frame, sub, d)]

\* monthly_totals_new[m] (lines 479-487)
MonthTotals(frame, m) ==
    DayValues(frame, SubFrame(frame, m), TotalRows(SubFrame(frame, m)))

\* the flags of a month, from its first wheelchair row or else zero
AdaValues(rows) ==
    [d \in 1..NumDays |-> IF rows # <<>> THEN RowDay(rows[1], d) ELSE Value(0)]

\* monthly_ada_new[m] (lines 489-494)
MonthAda(frame, m) == AdaValues(WheelchairRows(SubFrame(frame, m)))

\* an optional DataFrame argument: None, or a frame (a list of rows)
NoneFrame == [given |-> FALSE, rows |-> <<>>]

Frame(rows) == [given |-> TRUE, rows |-> rows]

\* the grid before line 510 is reached
NoGrid == [rendered |-> FALSE, cells |-> <<>>, monthly_totals |-> <<>>,
           total |-> <<>>, grand_total |-> 0]

NotComputed == [state |-> "none", totals |-> <<>>, ada |-> <<>>,
                has_old |-> FALSE, old |-> <<>>, grid |-> NoGrid]

Raised(t, a) ==
    \E m \in 1..NumMonths, d \in 1..NumDays : ~t[m][d].ok \/ ~a[m][d].ok

\* what the loop of lines 478-494 leaves: the two dictionaries, or nothing
\* when an int(...) raised
AggregateResult(t, a) ==
    IF Raised(t, a)
    THEN [state |-> "raised", totals |-> <<>>, ada |-> <<>>]
    ELSE [state |-> "done",
          totals |-> [m \in 1..NumMonths |-> [d \in 1..NumDays |-> t[m][d].v]],
          ada |-> [m \in 1..NumMonths |-> [d \in 1..NumDays |-> a[m][d].v]]]

\* lines 475-494
Aggregate(frame) ==
    AggregateResult([m \in 1..NumMonths |-> MonthTotals(frame, m)],
                    [m \in 1..NumMonths |-> MonthAda(frame, m)])

OldRaised(t) == \E m \in 1..NumMonths, d \in 1..NumDays : ~t[m][d].ok

\* what the loop of lines 498-506 leaves
OldResult(t) ==
    IF OldRaised(t)
    THEN [state |-> "raised", totals |-> <<>>]
    ELSE [state |-> "done",
          totals |-> [m \in 1..NumMonths |-> [d \in 1..NumDays |-> t[m][d].v]]]

\* a faulty variant: the prior data are not looked at
OldTotalsIgnored(old_frame) == [state |-> "none", totals |-> <<>>]

\* monthly_totals_old (lines 496-508): None without prior data, else a value
\* for every month and day; a month or a day the prior data do not have
\* gets 0, as in the new totals
OldTotals(old_frame) ==
    IF old_frame.given /\ old_frame.rows # <<>>
    THEN OldResult([m \in 1..NumMonths |-> MonthTotals(old_frame.rows, m)])
    ELSE [state |-> "none", totals |-> <<>>]

\* lines 475-508 given the two results: the old totals are computed only
\* when the loop over the new data did not raise
Aggregated(agg, old) ==
    IF agg.state = "done" /\ old.state # "raised"
    THEN [state |-> "done", totals |-> agg.totals, ada |-> agg.ada,
          has_old |-> old.state = "done", old |-> old.totals, grid |-> NoGrid]
    ELSE [NotComputed EXCEPT !.state = "raised"]

(***************************************************************************)
(* generate_daily_totals_excel, the grid (lines 510-588): new_df with the   *)
(* "Monthly Totals" row and the "Total" column, and the text of the cells. *)
(***************************************************************************)
RECURSIVE SumTo(_, _)
\* f[1] + ... + f[n]
SumTo(f, n) == IF n = 0 THEN 0 ELSE SumTo(f, n - 1) + f[n]

\* s = new_df.sum(numeric_only=True) (line 516): the sum of each month's
\* column over the 31 day rows
MonthlyTotalsRow(totals) ==
    [m \in 1..NumMonths |-> SumTo(totals[m], NumDays)]

\* a faulty variant: the first month is left out of the row sums
TotalColumnShort(totals) ==
    [d \in 1..NumDays |->
        SumTo([m \in 1..NumMonths |-> totals[m][d]], NumMonths) - totals[1][d]]

\* new_df["Total"] = new_df.sum(axis=1, numeric_only=True) (line 518), for
\* the day rows
TotalColumn(totals) ==
    [d \in 1..NumDays |->
        SumTo([m \in 1..NumMonths |-> totals[m][d]], NumMonths)]

\* line 518 for the "Monthly Totals" row, which line 517 appended before
GrandTotal(monthly) == SumTo(monthly, NumMonths)

NoArrow == [arrow |-> "", by |-> 0]

\* lines 571-572: " ↑{diff}" (up) or " ↓{abs(diff)}" (down)
Arrow(diff) ==
    IF diff > 0 THEN [arrow |-> "up", by |-> diff]
    ELSE IF diff < 0 THEN [arrow |-> "down", by |-> 0 - diff]
    ELSE NoArrow

\* a faulty variant: any flag that is not 0 is marked
AdaMarkedNonzero(ada_val) == ada_val # 0

\* if ada_val and int(ada_val) > 0 (line 576)
AdaMarked(ada_val) == ada_val # 0 /\ ada_val > 0

\* the text written for a day/month cell (lines 564-577, 583): the new
\* value, the arrow with its amount, the "*"
CellText(new_val, has_old, old_val, ada_val) ==
    [value |-> new_val,
     arrow |-> IF has_old THEN Arrow(new_val - old_val).arrow ELSE "",
     by |-> IF has_old THEN Arrow(new_val - old_val).by ELSE 0,
     star |-> AdaMarked(ada_val)]

\* day in old_df.index (line 569): old_df has a row for every day 1..31
OldValue(has_old, old, m, d) == IF has_old THEN old[m][d] ELSE 0

\* the write loop (lines 555-585)
Render(totals, ada, has_old, old) ==
    [rendered |-> TRUE,
     cells |-> [d \in 1..NumDays |-> [m \in 1..NumMonths |->
                   CellText(totals[m][d], has_old, OldValue(has_old, old, m, d),
                            ada[m][d])]],
     monthly_totals |-> MonthlyTotalsRow(totals),
     total |-> TotalColumn(totals),
     grand_total |-> GrandTotal(MonthlyTotalsRow(totals))]

(***************************************************************************)
(* Messages on the page.                                                   *)
(***************************************************************************)
Msg(level, text, year) == [level |-> level, text |-> text, year |-> year]

(***************************************************************************)
(* Frames of the functions the script calls.                               *)
(***************************************************************************)
LgIdle == [drv |-> 0, in_frame |-> FALSE, btn_clicked |-> FALSE,
           enter_sent |-> FALSE, refreshes |-> 0, url_login |-> FALSE,
           report_seen |-> FALSE]

YrIdle == [year |-> 0, m |-> 0, progress |-> 0, attempted |-> 0,
           all_df |-> <<>>, raised_at |-> "none"]

\* st.button(label) is True only in the execution its own click started
ButtonValue(name) == clicked = name

run_button == ButtonValue("run")

proceed == ButtonValue("proceed")

(***************************************************************************)
(* The inputs.                                                             *)
(***************************************************************************)
FirstYear == MinYear + 24

YearDomain == FirstYear .. (FirstYear + MaxYears - 1)

\* texts of the "Years to scrape" box the run flow is explored with: an
\* inclusive range (empty when hi < lo), two single years in descending
\* order, or a year followed by an item int() rejects
RunTexts ==
    {<<Span(FirstYear, hi)>> : hi \in (FirstYear - 1) .. (FirstYear + MaxYears - 1)}
    \cup {<<Single(FirstYear + MaxYears - 1), Single(FirstYear)>>}
    \cup {<<Single(FirstYear), NotDecimal>>}

\* which months of a year the portal shows a table for: none, January and
\* February only, or all twelve
RunPortals == {{}, {1, 2}, 1..NumMonths}

Outlook == "Outlook (Windows only)"

SMTP == "SMTP"

GoodAddress == <<"a", "@", "b", ".", "c", "o">>

BadAddress == <<"b", "a", "d">>

\* the Email section of the sidebar (lines 681, 714-722): the checkbox, the
\* recipients text, the backend, whether the Outlook COM import succeeded
\* (HAS_OUTLOOK, lines 47-51) and whether the four SMTP fields are filled
EmailSettings(send, text, backend, has_outlook, smtp) ==
    [send_email |-> send, email_text |-> text, email_backend |-> backend,
     HAS_OUTLOOK |-> has_outlook, smtp_complete |-> smtp]

NoEmail == EmailSettings(FALSE, <<>>, Outlook, FALSE, FALSE)

\* the email settings the run flow is explored with
EmailChoices ==
    {NoEmail,
     EmailSettings(FALSE, <<BadAddress>>, Outlook, FALSE, FALSE),
     EmailSettings(TRUE, <<>>, Outlook, TRUE, FALSE),
     EmailSettings(TRUE, <<<<" ">>, <<>>>>, SMTP, FALSE, TRUE),
     EmailSettings(TRUE, <<GoodAddress, BadAddress>>, SMTP, FALSE, TRUE),
     EmailSettings(TRUE, <<GoodAddress>>, Outlook, FALSE, FALSE),
     EmailSettings(TRUE, <<GoodAddress>>, SMTP, FALSE, FALSE),
     EmailSettings(TRUE, <<GoodAddress, <<" ">> \o GoodAddress>>, SMTP, FALSE, TRUE)}

\* the sidebar: every browser choice without email delivery, and every
\* email setting with the default browser choice
Inputs ==
    {i \in [manual_login : BOOLEAN, browser_choice : BrowserChoices,
            has_credentials : BOOLEAN, years_text : RunTexts,
            email : EmailChoices] :
        i.email # NoEmail => i.browser_choice = "auto"}

Init ==
    /\ inp \in Inputs
    /\ portal \in RunPortals
    /\ runs = 0
    /\ clicked = "none"
    /\ proceed_shown = FALSE
    /\ pc = "idle"
    /\ years = <<>>
    /\ to_emails = <<>>
    /\ mail = <<>>
    /\ bd = BdIdle
    /\ lg = LgIdle
    /\ sessions = <<>>
    /\ drv = 0
    /\ exc = NoExc
    /\ ui = {}
    /\ idx = 0
    /\ yr_frame = YrIdle
    /\ data_df = <<>>
    /\ last_attempt = <<0, 0>>
    /\ attachments = <<>>
    /\ summary_rows = <<>>
    /\ new_data = <<>>
    /\ old_raw_df = NoneFrame
    /\ HelpersIdle
    /\ excel = NotComputed

(***************************************************************************)
(* A click re-executes the script from the top (Streamlit).  The script's  *)
(* variables start afresh; browser processes are not the script's.         *)
(***************************************************************************)
ScriptStart(button) ==
    /\ pc \in {"idle", "stopped", "done"}
    /\ runs < MaxRuns
    /\ runs' = runs + 1
    /\ clicked' = button
    /\ proceed_shown' = FALSE
    /\ years' = <<>>
    /\ to_emails' = <<>>
    /\ mail' = <<>>
    /\ bd' = BdIdle
    /\ lg' = LgIdle
    /\ drv' = 0
    /\ exc' = NoExc
    /\ ui' = {}
    /\ idx' = 0
    /\ yr_frame' = YrIdle
    /\ data_df' = <<>>
    /\ last_attempt' = <<0, 0>>
    /\ attachments' = <<>>
    /\ summary_rows' = <<>>
    /\ UNCHANGED <<old_raw_df, parse_call, email_call, cft, new_data, excel, inp, sessions, portal>>

\* the user clicks "Run Scrape": if run_button is entered (line 738)
ClickRun ==
    /\ ScriptStart("run")
    /\ pc' = "validate"

\* the user clicks "I'm logged in - continue": the script runs again with
\* run_button False, so the block of line 738 is skipped
ClickProceed ==
    /\ proceed_shown
    /\ ScriptStart("proceed")
    /\ pc' = "done"

\* a faulty variant: the recipients are not looked at
RecipientsNeverMissing(send_email, emails) == FALSE

\* if send_email and not to_emails (line 749)
RecipientsMissing(send_email, emails) == send_email /\ emails = <<>>

\* what lines 740-760 end in: a message and st.stop(), the ValueError of
\* validate_email_list, or the way on to the authentication
Validation(i) ==
    LET ys == parse_years_input(i.years_text)
        checked == IF TextNotBlank(i.email.email_text)
                   THEN validate_email_list(i.email.email_text)
                   ELSE [raised |-> FALSE, emails |-> <<>>, bad |-> <<>>]
    IN  IF \E k \in 1..Len(i.years_text) : PartRaises(i.years_text[k])
        THEN [out |-> "raise", text |-> "invalid literal for int()",
              emails |-> <<>>]
        ELSE IF ys = <<>>
        THEN [out |-> "stop", text |-> "Please provide at least one valid year",
              emails |-> <<>>]
        ELSE IF checked.raised
        THEN [out |-> "raise", text |-> "Invalid email(s)", emails |-> <<>>]
        ELSE IF RecipientsMissing(i.email.send_email, checked.emails)
        THEN [out |-> "stop", text |-> "no valid recipient emails",
              emails |-> checked.emails]
        ELSE IF i.email.send_email /\ i.email.email_backend = Outlook
                /\ ~i.email.HAS_OUTLOOK
        THEN [out |-> "stop", text |-> "Outlook COM is not available",
              emails |-> checked.emails]
        ELSE IF i.email.send_email /\ i.email.email_backend = SMTP
                /\ ~i.email.smtp_complete
        THEN [out |-> "stop", text |-> "Please complete all SMTP fields",
              emails |-> checked.emails]
        ELSE [out |-> "go", text |-> "", emails |-> checked.emails]

\* lines 740-760
Validate ==
    /\ pc = "validate"
    /\ years' = parse_years_input(inp.years_text)
    /\ LET v == Validation(inp)
       IN  /\ to_emails' = v.emails
           /\ ui' = IF v.out = "stop" THEN ui \cup {Msg("error", v.text, 0)}
                    ELSE ui
           /\ exc' = IF v.out = "raise"
                     THEN Err("ValueError",
                              IF v.text = "Invalid email(s)"
                              THEN "validate_email_list"
                              ELSE "parse_years_input")
                     ELSE exc
           /\ pc' = CASE v.out = "stop" -> "stopped"
                      [] v.out = "raise" -> "top_except"
                      [] OTHER -> "auth"
    /\ UNCHANGED <<old_raw_df, parse_call, email_call, cft, new_data, excel, inp, mail, runs, clicked,
                   proceed_shown, bd, lg, sessions, drv, idx, yr_frame, data_df,
                   last_attempt, attachments, summary_rows, portal>>

\* lines 763-765 and 777-783: the call of build_driver, directly or through
\* login_and_get_driver
Authenticate ==
    /\ pc = "auth"
    /\ IF inp.manual_login
       THEN /\ bd' = BdEnter(inp.browser_choice, TRUE, "manual")
            /\ pc' = "build_driver"
            /\ ui' = ui
       ELSE IF ~inp.has_credentials
            THEN /\ ui' = ui \cup {Msg("error", "Provide username and password", 0)}
                 /\ pc' = "stopped"
                 /\ bd' = bd
            ELSE /\ bd' = BdEnter(inp.browser_choice, FALSE, "login")
                 /\ pc' = "build_driver"
                 /\ ui' = ui
    /\ UNCHANGED <<old_raw_df, parse_call, email_call, cft, new_data, excel, inp, mail, runs, clicked, proceed_shown, years, to_emails, lg, sessions, drv,
                   exc, idx, yr_frame, data_df, last_attempt, attachments,
                   summary_rows, portal>>

\* one iteration of "for fn in attempts" (lines 366-374)
TryEngine ==
    /\ pc = "build_driver"
    /\ bd.i <= Len(bd.attempts)
    /\ LET fn == bd.attempts[bd.i]
       IN  \/ /\ sessions' = Append(sessions, [state |-> "live", visible |-> bd.visible])
              /\ bd' = [bd EXCEPT !.tried = Append(@, fn),
                                  !.result = Len(sessions) + 1]
              /\ pc' = "build_return"
           \/ \E k \in EngineErrors(fn) :
              /\ bd' = [bd EXCEPT !.tried = Append(@, fn),
                                  !.warned = Append(@, Err(k, fn)),
                                  !.last_err = KeepLastErr(@, Err(k, fn)),
                                  !.i = @ + 1]
              /\ UNCHANGED <<sessions, pc>>
    /\ UNCHANGED <<old_raw_df, parse_call, email_call, cft, new_data, excel, inp, mail, runs, clicked, proceed_shown, years, to_emails, lg, drv, exc, ui,
                   idx, yr_frame, data_df, last_attempt, attachments,
                   summary_rows, portal>>

\* line 376: the loop ended without a return; neither caller catches this
\* before the handler of line 903
BuildExhausted ==
    /\ pc = "build_driver"
    /\ bd.i > Len(bd.attempts)
    /\ exc' = AllFailedError(bd.last_err)
    /\ pc' = "top_except"
    /\ UNCHANGED <<old_raw_df, parse_call, email_call, cft, new_data, excel, inp, mail, runs, clicked, proceed_shown, years, to_emails, bd, lg, sessions,
                   drv, ui, idx, yr_frame, data_df, last_attempt, attachments,
                   summary_rows, portal>>

\* return drv (line 370): line 765 binds the script's drv, line 382 binds
\* the drv of login_and_get_driver
BuildReturn ==
    /\ pc = "build_return"
    /\ IF bd.caller = "manual"
       THEN /\ drv' = bd.result
            /\ lg' = lg
            /\ pc' = "manual_login"
       ELSE /\ lg' = [LgIdle EXCEPT !.drv = bd.result]
            /\ drv' = drv
            /\ pc' = "login_get"
    /\ bd' = BdIdle
    /\ UNCHANGED <<old_raw_df, parse_call, email_call, cft, new_data, excel, inp, mail, runs, clicked, proceed_shown, years, to_emails, sessions, exc, ui,
                   idx, yr_frame, data_df, last_attempt, attachments,
                   summary_rows, portal>>

\* except Exception as e: st.error; st.stop() (lines 903-905)
TopExcept ==
    /\ pc = "top_except"
    /\ ui' = ui \cup {Msg("error", "Error", 0)}
    /\ exc' = NoExc
    /\ bd' = BdIdle
    /\ lg' = LgIdle
    /\ yr_frame' = YrIdle
    /\ pc' = "stopped"
    /\ UNCHANGED <<old_raw_df, parse_call, email_call, cft, new_data, excel, inp, mail, runs, clicked, proceed_shown, years, to_emails, sessions, drv, idx,
                   data_df, last_attempt, attachments, summary_rows, portal>>

envVars == <<inp, runs, clicked, portal, mail, new_data, old_raw_df, parse_call, email_call, cft, excel>>

loopVars == <<idx, yr_frame, data_df, last_attempt, attachments, summary_rows>>

\* drv.quit() on session d: the session ends, or the call itself raises
Quit(d, ok) ==
    [sessions EXCEPT ![d].state = IF ok THEN "quit" ELSE "quit_raised"]

(***************************************************************************)
(* Manual login (lines 766-776).                                           *)
(***************************************************************************)
ManualLogin ==
    /\ pc = "manual_login"
    /\ \E get_ok \in BOOLEAN, report_ok \in BOOLEAN, url_login \in BOOLEAN :
       IF ~get_ok
       THEN \* drv.get(LOGIN_URL) raises
            /\ exc' = Err("WebDriverException", "drv.get(LOGIN_URL)")
            /\ pc' = "top_except"
            /\ UNCHANGED <<proceed_shown, ui>>
       ELSE /\ proceed_shown' = TRUE
            /\ IF ~proceed
               THEN \* st.stop() (line 770)
                    /\ pc' = "stopped"
                    /\ UNCHANGED <<exc, ui>>
               ELSE IF ~report_ok
               THEN \* drv.get(REPORT_URL) raises
                    /\ exc' = Err("WebDriverException", "drv.get(REPORT_URL)")
                    /\ pc' = "top_except"
                    /\ ui' = ui
               ELSE IF url_login
               THEN \* st.stop() (line 775)
                    /\ ui' = ui \cup {Msg("error", "Still looks unauthenticated", 0)}
                    /\ pc' = "stopped"
                    /\ exc' = exc
               ELSE /\ ui' = ui \cup {Msg("success", "Authenticated (manual mode)", 0)}
                    /\ pc' = "year_loop"
                    /\ exc' = exc
    /\ UNCHANGED <<envVars, loopVars, years, to_emails, bd, lg, sessions, drv>>

(***************************************************************************)
(* login_and_get_driver (lines 381-435).                                   *)
(***************************************************************************)
\* drv.get(LOGIN_URL), line 383: outside the try of line 398
LoginGet ==
    /\ pc = "login_get"
    /\ \E get_ok \in BOOLEAN :
       IF get_ok
       THEN /\ pc' = "login_form"
            /\ exc' = exc
       ELSE /\ exc' = Err("WebDriverException", "drv.get(LOGIN_URL)")
            /\ pc' = "top_except"
    /\ UNCHANGED <<envVars, loopVars, proceed_shown, years, to_emails, bd, lg, sessions,
                   drv, ui>>

\* how the form step can end: a field is not found in time, the ENTER
\* keystroke raises, or the form is submitted
FormOutcomes == {"no_email", "no_password", "enter_raised", "submitted"}

\* a faulty variant: a submit control that was not found or not clicked
\* ends the attempt
SubmitControlRequired(btn) == btn

\* lines 405-413: whatever the wait for the submit control or its click
\* raises is dropped by except Exception: pass
SubmitStepPasses(btn) == TRUE

\* lines 387-417: iframe, the two fields, the submit control, ENTER
LoginForm ==
    /\ pc = "login_form"
    /\ \E iframe \in BOOLEAN, out \in FormOutcomes, btn \in BOOLEAN :
       /\ out \in {"no_email", "no_password"} => ~btn
       /\ LET ended == IF out \in {"enter_raised", "submitted"}
                          /\ ~SubmitStepPasses(btn)
                       THEN "no_submit_control"
                       ELSE out
          IN  /\ lg' = [lg EXCEPT !.in_frame = iframe /\ ended # "submitted",
                                  !.btn_clicked = btn,
                                  !.enter_sent = (ended = "submitted")]
              /\ IF ended = "submitted"
                 THEN /\ pc' = "login_report"
                      /\ exc' = exc
                 ELSE /\ exc' = Err(IF ended = "enter_raised"
                                    THEN "WebDriverException"
                                    ELSE "TimeoutException", ended)
                      /\ pc' = "login_except"
    /\ UNCHANGED <<envVars, loopVars, proceed_shown, years, to_emails, bd, sessions, drv, ui>>

\* the report element a wait that found none cannot have observed
SeenAnyway(found) == TRUE

\* WebDriverWait(drv, 12).until(presence_of_element_located(...)) returns
\* only when the element is present (lines 425-427)
WaitReport(found) == found

\* lines 419-429
LoginReport ==
    /\ pc = "login_report"
    /\ \E get_ok \in BOOLEAN, url_login \in BOOLEAN, still_login \in BOOLEAN,
          found \in BOOLEAN :
       /\ ~url_login => ~still_login
       /\ IF ~get_ok
          THEN /\ exc' = Err("WebDriverException", "drv.get(REPORT_URL)")
               /\ pc' = "login_except"
               /\ UNCHANGED <<lg, ui>>
          ELSE /\ lg' = [lg EXCEPT !.refreshes = IF url_login THEN 1 ELSE 0,
                                   !.url_login = still_login,
                                   !.report_seen = found]
               /\ IF WaitReport(found)
                  THEN /\ pc' = "login_return"
                       /\ ui' = ui \cup {Msg("success", "Authenticated successfully", 0)}
                       /\ exc' = exc
                  ELSE /\ exc' = Err("TimeoutException", "report element")
                       /\ pc' = "login_except"
                       /\ ui' = ui
    /\ UNCHANGED <<envVars, loopVars, proceed_shown, years, to_emails, bd, sessions, drv>>

\* except Exception (lines 430-435): diagnostics, quit, raise
LoginExcept ==
    /\ pc = "login_except"
    /\ \E diag_ok \in BOOLEAN, quit_ok \in BOOLEAN :
       IF ~diag_ok
       THEN \* drv.page_source or drv.current_url raises: line 434 is not reached
            /\ exc' = Err("WebDriverException", "diagnostics")
            /\ sessions' = sessions
       ELSE IF ~quit_ok
       THEN /\ sessions' = Quit(lg.drv, FALSE)
            /\ exc' = Err("WebDriverException", "drv.quit()")
       ELSE /\ sessions' = Quit(lg.drv, TRUE)
            /\ exc' = Err("RuntimeError", "Login failed or report not found.")
    /\ pc' = "top_except"
    /\ UNCHANGED <<envVars, loopVars, proceed_shown, years, to_emails, bd, lg, drv, ui>>

\* return drv (line 429), bound by line 783
LoginReturn ==
    /\ pc = "login_return"
    /\ drv' = lg.drv
    /\ lg' = LgIdle
    /\ pc' = "year_loop"
    /\ UNCHANGED <<envVars, loopVars, proceed_shown, years, to_emails, bd, sessions, exc, ui>>

(***************************************************************************)
(* collect_all_data_for_year and scrape_month_data (lines 447-469).        *)
(***************************************************************************)
\* a faulty variant: the stamps are swapped
StampSwapped(year, month) == [Month |-> year, Year |-> month]

\* df['Month'] = month; df['Year'] = year (lines 457-458): the month record
MonthRecord(year, month) == [Month |-> month, Year |-> year]

\* a faulty variant: a month without a table is kept as well
AppendAlways(all_df, has_table, rec) == Append(all_df, rec)

\* if df is not None: all_df.append(df) (lines 467-468)
AppendIfTable(all_df, has_table, rec) ==
    IF has_table THEN Append(all_df, rec) ELSE all_df

\* a faulty variant: the progress sink is not told
ReportNothing(frame) == frame

\* progress.progress(m/12.0, ...) (lines 464-465)
ReportProgress(frame) == [frame EXCEPT !.progress = frame.m]

\* a faulty variant: the loop steps by two
NextMonthSkips(m) == m + 2

\* for m in range(1, 13)
NextMonth(m) == m + 1

\* a faulty variant: the failure is swallowed and the loop goes on
MonthFailureSwallowed(frame, at) ==
    [pc |-> "month_progress",
     frame |-> [frame EXCEPT !.attempted = frame.m, !.raised_at = at,
                             !.m = NextMonth(frame.m)]]

\* neither scrape_month_data nor collect_all_data_for_year catches: the
\* exception leaves both and reaches the handler of line 857
MonthFailure(frame, at) ==
    [pc |-> "year_except",
     frame |-> [frame EXCEPT !.attempted = frame.m, !.raised_at = at]]

\* where scrape_month_data can raise: drv.get (line 448) and the wait for
\* the date input in set_datepicker (lines 439-441)
ScrapeErrors == {"drv.get(REPORT_URL)", "set_datepicker"}

\* for idx, yr in enumerate(years, start=1) (lines 790-793): the next year,
\* entering collect_all_data_for_year, or the end of the loop
YearLoop ==
    /\ pc = "year_loop"
    /\ IF idx < Len(years)
       THEN /\ idx' = idx + 1
            /\ yr_frame' = [YrIdle EXCEPT !.year = years[idx + 1], !.m = 1]
            /\ data_df' = <<>>
            /\ pc' = "month_progress"
       ELSE /\ pc' = "release"
            /\ yr_frame' = YrIdle
            /\ UNCHANGED <<idx, data_df>>
    /\ UNCHANGED <<envVars, proceed_shown, years, to_emails, bd, lg, sessions, drv, exc, ui,
                   last_attempt, attachments, summary_rows>>

\* lines 463-465
MonthProgress ==
    /\ pc = "month_progress"
    /\ yr_frame.m <= NumMonths
    /\ yr_frame' = ReportProgress(yr_frame)
    /\ pc' = "month_scrape"
    /\ UNCHANGED <<envVars, proceed_shown, years, to_emails, bd, lg, sessions, drv, exc, ui,
                   idx, data_df, last_attempt, attachments, summary_rows>>

\* lines 466-468 with scrape_month_data (lines 447-459)
MonthScrape ==
    /\ pc = "month_scrape"
    /\ last_attempt' = <<yr_frame.year, yr_frame.m>>
    /\ \/ /\ yr_frame' =
                [yr_frame EXCEPT
                    !.attempted = yr_frame.m,
                    !.all_df = AppendIfTable(@, yr_frame.m \in portal,
                                   MonthRecord(yr_frame.year, yr_frame.m)),
                    !.m = NextMonth(yr_frame.m)]
          /\ pc' = "month_progress"
          /\ exc' = exc
       \/ \E at \in ScrapeErrors :
          /\ yr_frame' = MonthFailure(yr_frame, at).frame
          /\ pc' = MonthFailure(yr_frame, at).pc
          /\ exc' = Err(IF at = "set_datepicker" THEN "TimeoutException"
                        ELSE "WebDriverException", at)
    /\ UNCHANGED <<envVars, proceed_shown, years, to_emails, bd, lg, sessions, drv, ui, idx,
                   data_df, attachments, summary_rows>>

\* return pd.concat(all_df, ignore_index=True) if all_df else pd.DataFrame()
\* (line 469), bound to data_df by line 793
YearReturn ==
    /\ pc = "month_progress"
    /\ yr_frame.m > NumMonths
    /\ data_df' = yr_frame.all_df
    /\ pc' = "year_build"
    /\ UNCHANGED <<envVars, proceed_shown, years, to_emails, bd, lg, sessions, drv, exc, ui,
                   idx, yr_frame, last_attempt, attachments, summary_rows>>

(***************************************************************************)
(* The body of the per-year try (lines 794-855) and its handler.           *)
(***************************************************************************)
Attachment(name, year) == [name |-> name, year |-> year]

\* how the build of one year's artifacts can end: to_json raises,
\* generate_daily_totals_excel raises, the summary computation raises, or
\* all of it succeeds
BuildOutcomes == {"json_raised", "excel_raised", "summary_raised", "ok"}

YearBuild ==
    /\ pc = "year_build"
    /\ LET yr == years[idx]
           json == Attachment("TBN_RawData", yr)
           xlsx == Attachment("TBN_Report", yr)
       IN IF data_df = <<>>
          THEN \* st.warning; continue (lines 794-796)
               /\ ui' = ui \cup {Msg("warning", "No data scraped", yr)}
               /\ pc' = "year_loop"
               /\ UNCHANGED <<exc, attachments, summary_rows>>
          ELSE \E out \in BuildOutcomes :
               /\ attachments' =
                     CASE out = "json_raised" -> attachments
                       [] out = "excel_raised" -> Append(attachments, json)
                       [] OTHER -> attachments \o <<json, xlsx>>
               /\ summary_rows' = IF out = "ok" THEN Append(summary_rows, yr)
                                  ELSE summary_rows
               /\ IF out = "ok"
                  THEN /\ pc' = "year_loop"
                       /\ exc' = exc
                  ELSE /\ pc' = "year_except"
                       /\ exc' = Err("Exception", out)
               /\ ui' = ui
    /\ UNCHANGED <<envVars, proceed_shown, years, to_emails, bd, lg, sessions, drv, idx,
                   yr_frame, data_df, last_attempt>>

\* a faulty variant: the handler gives up on the remaining years
AbandonYears == "release"

\* continue (line 859): back to the loop head
AfterYearFailure == "year_loop"

\* except Exception as e: st.error(f"Failed to process {yr}: {e}"); continue
\* (lines 857-859)
YearExcept ==
    /\ pc = "year_except"
    /\ ui' = ui \cup {Msg("error", "Failed to process", years[idx])}
    /\ exc' = NoExc
    /\ pc' = AfterYearFailure
    /\ UNCHANGED <<envVars, loopVars, proceed_shown, years, to_emails, bd, lg, sessions, drv>>

\* try: drv.quit() except Exception: pass (lines 861-864)
Release ==
    /\ pc = "release"
    /\ \E quit_ok \in BOOLEAN : sessions' = Quit(drv, quit_ok)
    /\ pc' = "finish"
    /\ UNCHANGED <<envVars, loopVars, proceed_shown, years, to_emails, bd, lg, drv, exc, ui>>

\* lines 866-873
Finish ==
    /\ pc = "finish"
    /\ ui' = ui \cup {Msg("success", "Scraping and report generation complete", 0)}
    /\ pc' = "email"
    /\ UNCHANGED <<envVars, loopVars, proceed_shown, years, to_emails, bd, lg,
                   sessions, drv, exc>>

\* how a send can end: the message is handed over; it raises before that
\* (connection, login, recipients not resolved); or it raises after that
\* (server.quit(), line 649)
SendOutcomes == {"sent", "raised", "sent_then_raised"}

\* the message send_email_outlook / send_email_smtp hand over
Message(to, files) == [to |-> to, attachments |-> files]

\* a faulty variant: a failed delivery is left to the handler of line 903
EmailFailureFatal == "top_except"

\* except Exception as e: st.error(f"Email failed: {e}") (lines 900-901);
\* the script then ends
AfterEmailFailure == "done"

\* a faulty variant: the attachments are not looked at
SendWhenSelected(send_email, files) == send_email

\* if send_email and attachments (line 876)
ShouldSend(send_email, files) == send_email /\ files # <<>>

\* lines 876-901
Email ==
    /\ pc = "email"
    /\ IF ShouldSend(inp.email.send_email, attachments)
       THEN \E out \in SendOutcomes :
            /\ mail' = IF out = "raised" THEN mail
                       ELSE Append(mail, Message(to_emails, attachments))
            /\ IF out = "sent"
               THEN /\ ui' = ui \cup {Msg("success", "Email sent to", 0)}
                    /\ pc' = "done"
               ELSE /\ ui' = ui \cup {Msg("error", "Email failed", 0)}
                    /\ pc' = AfterEmailFailure
       ELSE /\ pc' = "done"
            /\ UNCHANGED <<mail, ui>>
    /\ UNCHANGED <<inp, runs, clicked, portal, new_data, old_raw_df, parse_call, email_call, cft, excel,
                   loopVars, proceed_shown, years, to_emails, bd, lg, sessions,
                   drv, exc>>

Next ==
    \/ ClickRun
    \/ ClickProceed
    \/ Validate
    \/ Authenticate
    \/ TryEngine
    \/ BuildExhausted
    \/ BuildReturn
    \/ ManualLogin
    \/ LoginGet
    \/ LoginForm
    \/ LoginReport
    \/ LoginExcept
    \/ LoginReturn
    \/ YearLoop
    \/ MonthProgress
    \/ MonthScrape
    \/ YearReturn
    \/ YearBuild
    \/ YearExcept
    \/ Release
    \/ Finish
    \/ Email
    \/ TopExcept

Spec == Init /\ [][Next]_vars

(***************************************************************************)
(* Properties of the run flow, checked under Spec.                         *)
(***************************************************************************)
IsPrefix(s, t) == Len(s) <= Len(t) /\ \A i \in 1..Len(s) : s[i] = t[i]

RunEnded == pc \in {"stopped", "done"}

\* C1: when a run ends (normally, by st.stop() or through the top-level
\* handler) every browser session that was acquired has been terminated:
\* quit() has been called on it.
C1_SessionsReleasedAtRunEnd ==
    RunEnded => \A i \in 1..Len(sessions) : sessions[i].state # "live"

\* the order build_driver is to try the engines in: the preferred engine
\* first, then system Chrome, Chrome for Testing, Firefox, Edge without it
FixedOrder == <<"try_chrome_system", "try_chrome_cft", "try_firefox", "try_edge">>

PreferredEngine(choice) ==
    CASE choice = "chrome" -> "try_chrome_system"
      [] choice = "firefox" -> "try_firefox"
      [] choice = "edge" -> "try_edge"
      [] OTHER -> "none"

ExpectedOrder(choice) ==
    LET pref == PreferredEngine(choice)
        NotPref(e) == e # pref
    IN  IF pref = "none" THEN FixedOrder
        ELSE <<pref>> \o SelectSeq(FixedOrder, NotPref)

\* C2: the engines build_driver has tried are, in order, the first ones of:
\* the preferred engine, then system Chrome, Chrome for Testing, Firefox,
\* Edge with the preferred one skipped; so none is tried twice.  Once an
\* engine has returned a session no further engine is tried, and a session
\* is created only by the attempt that ends the call.
C2_EngineOrder ==
    [][/\ bd'.caller # "none" => bd'.preferred = inp.browser_choice
       /\ IsPrefix(bd'.tried, ExpectedOrder(bd'.preferred))
       /\ bd.result # 0 => (bd'.tried = bd.tried \/ bd' = BdIdle)
       /\ Len(sessions') > Len(sessions) =>
             /\ bd.result = 0
             /\ bd'.result = Len(sessions')
             /\ Len(sessions') = Len(sessions) + 1]_vars

\* C2 witness: with Edge preferred, Edge and system Chrome failed and Chrome
\* for Testing returned a session.
C2_Witness ==
    /\ bd.preferred = "edge"
    /\ bd.tried = <<"try_edge", "try_chrome_system", "try_chrome_cft">>
    /\ bd.result # 0

BuildFailed == pc = "top_except" /\ exc.at = "build_driver"

\* C3 as stated: when every candidate failed, the error build_driver raises
\* carries the failure of every attempted candidate.
C3_CarriesEveryFailure ==
    BuildFailed => \A i \in 1..Len(bd.warned) : bd.warned[i] \in Range(exc.detail)

\* C3 amended: when every candidate failed (all four were tried, none gave a
\* session), the error build_driver raises carries the failure of the last
\* attempted candidate, and only that one.
C3_CarriesLastFailure ==
    BuildFailed =>
        /\ Len(bd.warned) = Len(FixedOrder)
        /\ Range(bd.tried) = Engines
        /\ bd.result = 0
        /\ exc.type = "RuntimeError"
        /\ exc.detail = <<Last(bd.warned)>>

\* C3 witness: all four engines failed, Chrome for Testing with another
\* error than the last engine.
C3_Witness ==
    /\ BuildFailed
    /\ \E i \in 1..Len(bd.warned) : bd.warned[i].type = "RuntimeError"
    /\ Last(bd.warned).type = "WebDriverException"

\* C4: login_and_get_driver returns (and the script binds drv in automatic
\* mode) only when the fields were filled and the report element was
\* observed; from its except clause it always raises and returns nothing.
C4_ReturnsOnlyVerified ==
    [][/\ pc' = "login_return" => (lg'.report_seen /\ lg'.enter_sent)
       /\ (drv' # drv /\ drv' # 0 /\ ~inp.manual_login) =>
             (pc = "login_return" /\ lg.report_seen /\ drv' = lg.drv)
       /\ pc = "login_except" =>
             (pc' = "top_except" /\ exc' # NoExc /\ drv' = 0)
       /\ (pc = "login_form" /\ ~lg'.enter_sent) => pc' = "login_except"
       /\ (pc = "login_report" /\ ~lg'.report_seen) => pc' = "login_except"]_vars

\* C4 witness: login returns after one reload, the report element observed.
C4_Witness ==
    pc = "login_return" /\ lg.report_seen /\ lg.refreshes = 1

YearFailed(y) == Msg("error", "Failed to process", y) \in ui

YearEmpty(y) == Msg("warning", "No data scraped", y) \in ui

\* C5: the per-year handler reports the failed year and goes on with the
\* loop, leaving attachments and summary rows as they were; attachments only
\* grow during a run; and when the loop has ended every year of the input
\* was processed: it failed, was empty, or has its summary row.
C5_YearFailureIsolated ==
    [][/\ pc = "year_except" =>
             /\ pc' = "year_loop"
             /\ YearFailed(years[idx])'
             /\ attachments' = attachments
             /\ summary_rows' = summary_rows
       /\ runs' = runs => IsPrefix(attachments, attachments')
       /\ pc' \in {"release", "finish", "done"} /\ years' # <<>> =>
             /\ idx' = Len(years')
             /\ \A k \in 1..Len(years') :
                   \/ YearFailed(years[k])'
                   \/ YearEmpty(years[k])'
                   \/ years'[k] \in Range(summary_rows')]_vars

\* C5 witness: the run is over, the first year failed and the second year
\* produced its artifacts.
C5_Witness ==
    /\ pc = "done"
    /\ Len(years) = 2
    /\ YearFailed(years[1])
    /\ years[2] \in Range(summary_rows)
    /\ Attachment("TBN_Report", years[2]) \in Range(attachments)

DatePickerFailed ==
    yr_frame.raised_at = "set_datepicker" /\ pc \in {"year_except", "year_loop"}

\* C6 as stated: after a date-picker failure in one month the remaining
\* months of the year are still attempted and the months scraped so far are
\* in the year's dataset.
C6_MonthOnlyFatal ==
    (DatePickerFailed /\ pc = "year_loop") =>
        /\ yr_frame.attempted = NumMonths
        /\ data_df = yr_frame.all_df

\* C6 amended: a date-picker failure in month m is fatal to the whole year:
\* m is the last month attempted, the year yields no dataset, no attachment
\* and no summary row, and the failure is reported for the year.
C6_YearFatal ==
    DatePickerFailed =>
        /\ yr_frame.attempted = yr_frame.m
        /\ last_attempt = <<yr_frame.year, yr_frame.m>>
        /\ data_df = <<>>
        /\ \A i \in 1..Len(attachments) : attachments[i].year # yr_frame.year
        /\ yr_frame.year \notin Range(summary_rows)
        /\ pc = "year_loop" => YearFailed(yr_frame.year)

\* C6 witness: months 1 and 2 were scraped, the date picker failed in
\* month 3 and the handler has run.
C6_Witness ==
    /\ DatePickerFailed
    /\ pc = "year_loop"
    /\ yr_frame.attempted = 3
    /\ Len(yr_frame.all_df) = 2

\* C7: within a run each scrape attempt is for the month after the previous
\* one of the same year, or for month 1 of a later year, and then only after
\* the earlier year's month loop has ended (its twelfth month was attempted
\* or the year failed).
C7_AscendingOrder ==
    [][(last_attempt' # last_attempt /\ runs' = runs) =>
          LET old == last_attempt
              new == last_attempt'
          IN  /\ new[2] \in 1..NumMonths
              /\ new[1] \in Range(years)
              /\ IF new[1] = old[1]
                 THEN new[2] = old[2] + 1
                 ELSE /\ new[1] > old[1]
                      /\ new[2] = 1
                      /\ \/ old = <<0, 0>>
                         \/ old[2] = NumMonths
                         \/ YearFailed(old[1])]_vars

\* C7 witness: the years were typed in descending order and the twelfth
\* month of the second (later) year has been attempted.
C7_Witness ==
    /\ Len(inp.years_text) = 2
    /\ Len(years) = 2
    /\ last_attempt = <<years[2], NumMonths>>
    /\ inp.years_text[1].a = years[2]

\* C9 as stated: progress for month m is reported after the attempt to
\* scrape month m, so the reported index never exceeds the attempted one.
C9_ProgressAfterAttempt ==
    yr_frame.progress <= yr_frame.attempted

\* C9 amended: progress for month m is reported just before the attempt to
\* scrape month m, for every month that is attempted: the reported index is
\* the attempted one or the next, it is m when the attempt of m starts, and
\* it is 12 when the year returns.
C9_ProgressBeforeAttempt ==
    /\ yr_frame.attempted <= yr_frame.progress
    /\ yr_frame.progress <= yr_frame.attempted + 1
    /\ pc = "month_scrape" => yr_frame.progress = yr_frame.m
    /\ pc = "year_build" => yr_frame.progress = NumMonths

\* C9 witness: progress 5/12 is on display and month 5 is not yet attempted.
C9_Witness ==
    pc = "month_scrape" /\ yr_frame.progress = 5 /\ yr_frame.attempted = 4

(***************************************************************************)
(* collect_all_data_for_year on its own: one call, for any year of the     *)
(* domain, against a portal that shows a table for any set of months.      *)
(***************************************************************************)
InitYear ==
    /\ inp \in {i \in Inputs : /\ ~i.manual_login
                               /\ i.has_credentials
                               /\ i.browser_choice = "auto"
                               /\ i.years_text = <<Span(FirstYear, FirstYear + MaxYears - 1)>>
                               /\ i.email = NoEmail}
    /\ portal \in SUBSET (1..NumMonths)
    /\ runs = 1
    /\ clicked = "run"
    /\ proceed_shown = FALSE
    /\ years = parse_years_input(inp.years_text)
    /\ to_emails = <<>>
    /\ mail = <<>>
    /\ bd = BdIdle
    /\ lg = LgIdle
    /\ sessions = <<[state |-> "live", visible |-> FALSE]>>
    /\ drv = 1
    /\ exc = NoExc
    /\ ui = {}
    /\ idx \in 1..Len(years)
    /\ yr_frame = [YrIdle EXCEPT !.year = years[idx], !.m = 1]
    /\ data_df = <<>>
    /\ last_attempt = <<0, 0>>
    /\ attachments = <<>>
    /\ summary_rows = <<>>
    /\ new_data = <<>>
    /\ old_raw_df = NoneFrame
    /\ HelpersIdle
    /\ excel = NotComputed
    /\ pc = "month_progress"

NextYear ==
    \/ MonthProgress
    \/ MonthScrape
    \/ YearReturn

SpecYear == InitYear /\ [][NextYear]_vars

Months(df) == {df[i].Month : i \in 1..Len(df)}

\* C8: the dataset collect_all_data_for_year returns holds exactly the
\* months the portal showed a table for, in ascending month order, each
\* stamped with the requested year and its month; a month without a table
\* is skipped (the loop goes on), and with no table at all the dataset is
\* empty.  While the loop runs all_df holds the months with a table among
\* those attempted.
C8_DatasetIsMonthsWithTable ==
    /\ pc \in {"month_progress", "month_scrape"} /\ yr_frame.raised_at = "none" =>
          Months(yr_frame.all_df) = portal \cap (1..yr_frame.attempted)
    /\ pc = "year_build" =>
          /\ Months(data_df) = portal
          /\ Len(data_df) = Cardinality(portal)
          /\ \A i \in 1..Len(data_df) :
                /\ data_df[i].Year = yr_frame.year
                /\ data_df[i].Month \in 1..NumMonths
          /\ \A i \in 1..Len(data_df), j \in 1..Len(data_df) :
                i < j => data_df[i].Month < data_df[j].Month
          /\ portal = {} => data_df = <<>>
          /\ yr_frame.attempted = NumMonths

\* C8 witness: the portal showed tables for months 1 and 2 only and the
\* call returned a dataset of exactly two month records.
C8_Witness ==
    /\ pc = "year_build"
    /\ portal = {1, 2}
    /\ Len(data_df) = 2
    /\ yr_frame.year = FirstYear + 1

(***************************************************************************)
(* generate_daily_totals_excel on its own: one call on any data frame of   *)
(* one to MaxRows rows, the rows of two months.                            *)
(***************************************************************************)
DataMonths == {1, 3}

DataLabels == {Label(TOTAL), Label(<<"S", "u", "b", "t", "o", "t", "a", "l">>),
               Label(<<"C", "o", "a", "c", "h">>), Label(Wheelchair)}

\* a row's cells: any kind of cell in day column 1, a number in day column 2
DataRows ==
    {r \in [Month : DataMonths, label : DataLabels,
            cells : [TableDays -> {Num(2), Num(3), Num(7), NaN, Text}]] :
        /\ r.cells[1] \in {Num(2), Num(3), NaN, Text}
        /\ r.cells[2] = Num(7)}

\* pd.concat of the month tables in month order: the rows of a month
\* follow those of the earlier months
DataFrames ==
    {f \in UNION {[1..n -> DataRows] : n \in 1..MaxRows} :
        \A i \in 1..(Len(f) - 1) : f[i].Month <= f[i + 1].Month}

InitAgg ==
    /\ new_data \in DataFrames
    /\ old_raw_df = NoneFrame
    /\ HelpersIdle
    /\ excel = NotComputed
    /\ pc = "generate"
    /\ inp = [manual_login |-> FALSE, browser_choice |-> "auto",
              has_credentials |-> TRUE, years_text |-> <<Single(FirstYear)>>,
              email |-> NoEmail]
    /\ portal = {}
    /\ runs = 1
    /\ clicked = "run"
    /\ proceed_shown = FALSE
    /\ years = <<FirstYear>>
    /\ to_emails = <<>>
    /\ mail = <<>>
    /\ bd = BdIdle
    /\ lg = LgIdle
    /\ sessions = <<[state |-> "live", visible |-> FALSE]>>
    /\ drv = 1
    /\ exc = NoExc
    /\ ui = {}
    /\ idx = 1
    /\ yr_frame = YrIdle
    /\ data_df = <<>>
    /\ last_attempt = <<0, 0>>
    /\ attachments = <<>>
    /\ summary_rows = <<>>

\* the call generate_daily_totals_excel(new_data, ..., old_raw_df), lines
\* 475-508: an exception of the loops leaves the function
GenerateDailyTotals ==
    /\ pc = "generate"
    /\ excel' = Aggregated(Aggregate(new_data), OldTotals(old_raw_df))
    /\ pc' = IF excel'.state = "done" THEN "render" ELSE "generated"
    /\ UNCHANGED <<new_data, old_raw_df, parse_call, email_call, cft, inp, mail, runs, clicked, proceed_shown,
                   years, to_emails, bd, lg, sessions, drv, exc, ui, idx, yr_frame,
                   data_df, last_attempt, attachments, summary_rows, portal>>

\* lines 510-588
RenderGrid ==
    /\ pc = "render"
    /\ excel' = [excel EXCEPT
                    !.grid = Render(excel.totals, excel.ada, excel.has_old,
                                    excel.old)]
    /\ pc' = "generated"
    /\ UNCHANGED <<new_data, old_raw_df, parse_call, email_call, cft, inp, mail, runs, clicked, proceed_shown,
                   years, to_emails, bd, lg, sessions, drv, exc, ui, idx, yr_frame,
                   data_df, last_attempt, attachments, summary_rows, portal>>

NextAgg ==
    \/ GenerateDailyTotals
    \/ RenderGrid

SpecAgg == InitAgg /\ [][NextAgg]_vars

MonthsPresent(frame) == {frame[i].Month : i \in 1..Len(frame)}

\* every day cell of the month's rows is a number
MonthAllNumbers(frame, m) ==
    \A i \in 1..Len(frame) :
        frame[i].Month = m => \A d \in TableDays : frame[i].cells[d].k = "num"

\* the total the claim gives day d of month m: the cell of the first row
\* labelled like "total", else the sum of the column over the month's rows;
\* 0 for a column the frame does not have
ClaimedTotal(frame, m, d) ==
    LET sub == SubFrame(frame, m)
        tot == TotalRows(sub)
    IN  IF d \notin TableDays THEN 0
        ELSE IF tot # <<>> THEN tot[1].cells[d].v
        ELSE SumCells(sub, d)

\* C10: when the aggregation completes, for each month present in the
\* dataset (here: whose day cells are all numbers) the daily totals are
\* those of the first row whose label contains "total" in any case, or,
\* with no such row, the sums of the day columns over the month's rows; an
\* absent day column gives 0.
C10_TotalsFromTotalRowOrSum ==
    excel.state = "done" =>
        \A m \in MonthsPresent(new_data) :
            MonthAllNumbers(new_data, m) =>
                \A d \in 1..NumDays :
                    excel.totals[m][d] = ClaimedTotal(new_data, m, d)

\* the first row of month m labelled like "total", and the first labelled
\* like "wheelchair": <<>> when the month has none
SelectedTotalRow(frame, m) == TotalRows(SubFrame(frame, m))

SelectedAdaRow(frame, m) == WheelchairRows(SubFrame(frame, m))

\* C11: the aggregation completes whatever the cells hold, and a day cell of
\* the selected total row or wheelchair row that is missing (NaN) or text
\* that is not a number counts as 0.
C11_MissingCoercedToZero ==
    excel.state # "none" =>
        /\ excel.state = "done"
        /\ \A m \in MonthsPresent(new_data), d \in TableDays :
              /\ (/\ SelectedTotalRow(new_data, m) # <<>>
                  /\ SelectedTotalRow(new_data, m)[1].cells[d].k # "num")
                    => excel.totals[m][d] = 0
              /\ (/\ SelectedAdaRow(new_data, m) # <<>>
                  /\ SelectedAdaRow(new_data, m)[1].cells[d].k # "num")
                    => excel.ada[m][d] = 0

\* C12: for a dataset that is not empty the aggregation always yields the
\* totals and the flags of all twelve months and all days 1..31, and a month
\* with no row in the dataset has total 0 and flag 0 on every day.
C12_AllMonthsAllDays ==
    (excel.state # "none" /\ new_data # <<>>) =>
        /\ excel.state = "done"
        /\ DOMAIN excel.totals = 1..NumMonths
        /\ DOMAIN excel.ada = 1..NumMonths
        /\ \A m \in 1..NumMonths :
              /\ DOMAIN excel.totals[m] = 1..NumDays
              /\ DOMAIN excel.ada[m] = 1..NumDays
              /\ m \notin MonthsPresent(new_data) =>
                    \A d \in 1..NumDays :
                        excel.totals[m][d] = 0 /\ excel.ada[m][d] = 0

(***************************************************************************)
(* generate_daily_totals_excel with prior data: one call on a new frame    *)
(* and an optional prior frame of at most MaxRows rows together.           *)
(***************************************************************************)
\* rows of a total row or a wheelchair row; day column 1 holds a count, a
\* negative number or nothing
RenderRows ==
    {r \in [Month : DataMonths, label : {Label(TOTAL), Label(Wheelchair)},
            cells : [TableDays -> {Num(2), Num(-1), Num(7), NaN}]] :
        /\ r.cells[1] \in {Num(2), Num(-1), NaN}
        /\ r.cells[2] = Num(7)}

\* the frames of n rows, the rows in month order
RenderFrames(n) ==
    {f \in [1..n -> RenderRows] :
        \A i \in 1..(n - 1) : f[i].Month <= f[i + 1].Month}

InitRender ==
    /\ \E n \in 1..MaxRows :
          /\ new_data \in RenderFrames(n)
          /\ old_raw_df \in {NoneFrame} \cup
                {Frame(g) : g \in UNION {RenderFrames(k) : k \in 0..(MaxRows - n)}}
    /\ HelpersIdle
    /\ excel = NotComputed
    /\ pc = "generate"
    /\ inp = [manual_login |-> FALSE, browser_choice |-> "auto",
              has_credentials |-> TRUE, years_text |-> <<Single(FirstYear)>>,
              email |-> NoEmail]
    /\ portal = {}
    /\ runs = 1
    /\ clicked = "run"
    /\ proceed_shown = FALSE
    /\ years = <<FirstYear>>
    /\ to_emails = <<>>
    /\ mail = <<>>
    /\ bd = BdIdle
    /\ lg = LgIdle
    /\ sessions = <<[state |-> "live", visible |-> FALSE]>>
    /\ drv = 1
    /\ exc = NoExc
    /\ ui = {}
    /\ idx = 1
    /\ yr_frame = YrIdle
    /\ data_df = <<>>
    /\ last_attempt = <<0, 0>>
    /\ attachments = <<>>
    /\ summary_rows = <<>>

SpecRender == InitRender /\ [][NextAgg]_vars

Rendered == excel.grid.rendered

\* the prior dataset has a value for day d of month m: a row of that month
\* and that day column
HasPriorValue(m, d) ==
    /\ old_raw_df.given
    /\ d \in TableDays
    /\ m \in MonthsPresent(old_raw_df.rows)

\* C13 as stated: a cell has an arrow only when the prior dataset has a
\* value for the same month and day; a month/day the prior data lack, and
\* every cell when there are no prior data, shows the new value alone.
C13_ArrowOnlyWithPriorValue ==
    Rendered =>
        \A d \in 1..NumDays, m \in 1..NumMonths :
            ~HasPriorValue(m, d) =>
                /\ excel.grid.cells[d][m].arrow = ""
                /\ excel.grid.cells[d][m].value = excel.totals[m][d]

\* the prior total of a month and day, 0 where the prior data have no value
PriorTotal(m, d) ==
    IF HasPriorValue(m, d) THEN ClaimedTotal(old_raw_df.rows, m, d) ELSE 0

Sign(n) == IF n > 0 THEN "up" ELSE IF n < 0 THEN "down" ELSE ""

Abs(n) == IF n < 0 THEN 0 - n ELSE n

\* C13 amended: a delta exists for every cell exactly when prior data exist
\* for the year (a prior frame that is given and not empty); a month/day the
\* prior data have no value for counts as a prior total of 0, so its cell
\* shows the arrow of new - 0; with no prior data no cell has an arrow.
C13_ArrowWheneverPriorData ==
    Rendered =>
        /\ excel.has_old = (old_raw_df.given /\ old_raw_df.rows # <<>>)
        /\ \A d \in 1..NumDays, m \in 1..NumMonths :
              LET cell == excel.grid.cells[d][m]
                  delta == excel.totals[m][d] - PriorTotal(m, d)
              IN  /\ cell.value = excel.totals[m][d]
                  /\ cell.arrow = IF excel.has_old THEN Sign(delta) ELSE ""
                  /\ cell.by = IF excel.has_old THEN Abs(delta) ELSE 0

\* C13 witness: the prior data have rows for month 3 only, and the cell of
\* day 1 of month 1 shows 2 with an arrow up by 2.
C13_Witness ==
    /\ Rendered
    /\ old_raw_df.given
    /\ MonthsPresent(old_raw_df.rows) = {3}
    /\ excel.grid.cells[1][1] = [value |-> 2, arrow |-> "up", by |-> 2,
                                 star |-> FALSE]

\* the delta of a cell as the code has it: present with prior data
DeltaPresent == excel.has_old

Delta(m, d) == excel.totals[m][d] - excel.old[m][d]

\* the arrow part of the text for a delta
ArrowText(present, delta) ==
    IF present /\ delta # 0
    THEN [arrow |-> Sign(delta), by |-> Abs(delta)]
    ELSE [arrow |-> "", by |-> 0]

RECURSIVE Sigma(_, _, _)
\* f[lo] + ... + f[hi]
Sigma(f, lo, hi) == IF lo > hi THEN 0 ELSE f[lo] + Sigma(f, lo + 1, hi)

\* C15: in the grid each month's "Monthly Totals" cell is the sum of the
\* values of that month's 31 day cells, each day's "Total" cell is the sum
\* of the values of that day's 12 month cells, and the "Total" cell of the
\* "Monthly Totals" row is the sum of all 12 x 31 day cells.
C15_GridSums ==
    Rendered =>
        LET shown == [d \in 1..NumDays |->
                        [m \in 1..NumMonths |-> excel.grid.cells[d][m].value]]
        IN  /\ \A m \in 1..NumMonths :
                  excel.grid.monthly_totals[m] =
                      Sigma([d \in 1..NumDays |-> shown[d][m]], 1, NumDays)
            /\ \A d \in 1..NumDays :
                  excel.grid.total[d] = Sigma(shown[d], 1, NumMonths)
            /\ excel.grid.grand_total =
                  Sigma([d \in 1..NumDays |-> Sigma(shown[d], 1, NumMonths)],
                        1, NumDays)

\* C15 witness: two months with data; the year's total is the sum of both.
C15_Witness ==
    /\ Rendered
    /\ excel.grid.monthly_totals[1] = 9
    /\ excel.grid.monthly_totals[3] = 6
    /\ excel.grid.total[1] = 1
    /\ excel.grid.grand_total = 15

(***************************************************************************)
(* Properties of the validation, the delivery and the sessions, checked    *)
(* under Spec.                                                             *)
(***************************************************************************)
NoValidYear(i) == parse_years_input(i.years_text) = <<>>

\* the recipients text names an entry that is not an address
InvalidRecipient(i) ==
    \E k \in 1..Len(i.email.email_text) :
        /\ Strip(i.email.email_text[k]) # <<>>
        /\ ~EmailMatches(Strip(i.email.email_text[k]))

\* email delivery is selected and the text names no recipient
NoRecipients(i) ==
    /\ i.email.send_email
    /\ \A k \in 1..Len(i.email.email_text) : Strip(i.email.email_text[k]) = <<>>

\* email delivery is selected and the backend's settings are incomplete
IncompleteDelivery(i) ==
    /\ i.email.send_email
    /\ \/ i.email.email_backend = Outlook /\ ~i.email.HAS_OUTLOOK
       \/ i.email.email_backend = SMTP /\ ~i.email.smtp_complete

InvalidInput(i) ==
    NoValidYear(i) \/ InvalidRecipient(i) \/ NoRecipients(i) \/ IncompleteDelivery(i)

\* C16: with invalid input (no valid year, an entry that is not an address,
\* delivery selected without recipients or with incomplete settings) the
\* validation ends the run with an error on the page, directly or through
\* the top-level handler, and no session is created by that run.
C16_InvalidInputStopsBeforeSession ==
    [][/\ (pc = "validate" /\ InvalidInput(inp)) =>
             /\ sessions' = sessions
             /\ \/ pc' = "stopped" /\ \E msg \in ui' \ ui : msg.level = "error"
                \/ pc' = "top_except" /\ exc'.type = "ValueError"
       /\ (pc = "top_except" /\ exc.type = "ValueError") =>
             /\ pc' = "stopped"
             /\ Msg("error", "Error", 0) \in ui'
             /\ sessions' = sessions
       /\ Len(sessions') > Len(sessions) => ~InvalidInput(inp)]_vars

\* C16 witness: the years are valid, an entry of the recipients text is not
\* an address, the run has stopped with the error and without a session.
C16_Witness ==
    /\ pc = "stopped"
    /\ ~NoValidYear(inp)
    /\ InvalidRecipient(inp)
    /\ Msg("error", "Error", 0) \in ui
    /\ sessions = <<>>

DeliveryFailed == Msg("error", "Email failed", 0) \in ui

DeliverySucceeded == Msg("success", "Email sent to", 0) \in ui

\* C17: the delivery step leaves the attachments and the summary rows as
\* they are, whether the sink fails or not; a failure is reported as "Email
\* failed", and the run still ends as a completed run: no exception in
\* flight, not through the top-level handler, the completion message kept.
C17_DeliveryFailureKeepsArtifacts ==
    [][pc = "email" =>
          /\ attachments' = attachments
          /\ summary_rows' = summary_rows
          /\ pc' = "done"
          /\ exc' = NoExc
          /\ Msg("success", "Scraping and report generation complete", 0) \in ui'
          /\ Msg("error", "Error", 0) \notin ui'
          /\ (inp.email.send_email /\ attachments # <<>>) =>
                /\ DeliveryFailed' # DeliverySucceeded'
                /\ mail' = mail => DeliveryFailed']_vars

\* C17 witness: a run with both artifacts of a year and its summary row has
\* ended as completed after the sink failed.
C17_Witness ==
    /\ pc = "done"
    /\ DeliveryFailed
    /\ mail = <<>>
    /\ Len(attachments) >= 2
    /\ summary_rows # <<>>
    /\ Msg("success", "Scraping and report generation complete", 0) \in ui

\* C18: in manual mode, when the execution started by the continue signal
\* has ended, it has gone on to the scraping of the requested years (or has
\* reported why not).
C18_ContinueProceedsToScrape ==
    (inp.manual_login /\ clicked = "proceed" /\ RunEnded) =>
        \/ last_attempt # <<0, 0>>
        \/ \E msg \in ui : msg.level = "error"

LiveSessions == {i \in 1..Len(sessions) : sessions[i].state = "live"}

\* C19: at most one browser session is live at any time, also across the
\* executions of the run flow.
C19_AtMostOneLiveSession == Cardinality(LiveSessions) <= 1

\* C20: terminating a session never raises: no exception of a quit() call
\* is ever in flight, at the end of the run or in the login-failure path,
\* where the failure reported stays "Login failed or report not found."
C20_ReleaseNeverRaises ==
    /\ exc.at # "drv.quit()"
    /\ pc = "finish" => exc = NoExc
    /\ (pc = "top_except" /\ lg.drv # 0 /\ sessions[lg.drv].state = "quit_raised") =>
          exc.at = "Login failed or report not found."

(***************************************************************************)
(* The helpers on their own.  The script is at rest: none of its variables *)
(* changes while a helper is called.                                       *)
(***************************************************************************)
scriptVars == <<inp, runs, clicked, proceed_shown, pc, years, to_emails, mail,
                bd, lg, sessions, drv, exc, ui, idx, yr_frame, data_df,
                last_attempt, attachments, summary_rows, portal, new_data,
                old_raw_df, excel>>

ScriptAtRest ==
    /\ inp = [manual_login |-> FALSE, browser_choice |-> "auto",
              has_credentials |-> TRUE, years_text |-> <<Single(FirstYear)>>,
              email |-> NoEmail]
    /\ portal = {}
    /\ runs = 0
    /\ clicked = "none"
    /\ proceed_shown = FALSE
    /\ pc = "idle"
    /\ years = <<>>
    /\ to_emails = <<>>
    /\ mail = <<>>
    /\ bd = BdIdle
    /\ lg = LgIdle
    /\ sessions = <<>>
    /\ drv = 0
    /\ exc = NoExc
    /\ ui = {}
    /\ idx = 0
    /\ yr_frame = YrIdle
    /\ data_df = <<>>
    /\ last_attempt = <<0, 0>>
    /\ attachments = <<>>
    /\ summary_rows = <<>>
    /\ new_data = <<>>
    /\ old_raw_df = NoneFrame
    /\ excel = NotComputed

RECURSIVE Join(_, _)
\* the text typed as the items of a list with a separator between
\* neighbours: seps[i] stands between items[i] and items[i + 1]
Join(items, seps) ==
    IF Len(items) = 0 THEN <<>>
    ELSE IF Len(items) = 1 THEN items[1]
    ELSE items[1] \o <<seps[1]>> \o Join(Tail(items), Tail(seps))

\* lists of at most MaxItems items
ItemLists(Items) == UNION {[1..n -> Items] : n \in 0..MaxItems}

RECURSIVE str(_)
\* str(n) of a natural number: its decimal digits
str(n) ==
    IF n < 10 THEN <<Decimals[n + 1]>>
    ELSE str(n \div 10) \o <<Decimals[(n % 10) + 1]>>

\* items of the "Years to scrape" text the helper is explored with: single
\* years inside and outside [MinYear, MaxYear], with blanks around, ranges
\* (ascending, descending, partly outside, with blanks), text that is no
\* number, an empty and a blank item, half a range, two dashes, and a
\* superscript digit alone and after a year
YearItems ==
    {str(MinYear - 1), str(MinYear), str(MinYear + 1), str(MaxYear),
     str(MaxYear + 1),
     <<" ">> \o str(MinYear + 1) \o <<" ">>,
     str(MinYear) \o <<"-">> \o str(MinYear + 1),
     str(MinYear + 1) \o <<"-">> \o str(MinYear),
     str(MinYear - 1) \o <<"-">> \o str(MinYear),
     str(MaxYear) \o <<" ", "-", " ">> \o str(MaxYear + 1),
     <<"x">>, <<>>, <<" ">>,
     str(MinYear) \o <<"-">>,
     <<"2", "0", "x", "0">>,
     str(MinYear) \o <<"-">> \o str(MinYear + 1) \o <<"-">> \o str(MaxYear),
     <<"sup2">>,
     str(MinYear) \o <<"sup2">>}

YearTexts ==
    {Join(items, [i \in 1..(Len(items) - 1) |-> ","]) :
        items \in ItemLists(YearItems)}

InitParse ==
    /\ ScriptAtRest
    /\ email_call = EmailIdle
    /\ cft = CftIdle
    /\ parse_call \in {[ParseIdle EXCEPT !.text = t, !.state = "called"] :
                          t \in YearTexts}

\* the call parse_years_input(text), lines 71-84
ParseYearsInput ==
    /\ parse_call.state = "called"
    /\ LET r == ParseYears(parse_call.text)
       IN  parse_call' =
               [parse_call EXCEPT
                   !.state = IF r.raised THEN "raised" ELSE "returned",
                   !.years = r.years]
    /\ UNCHANGED <<scriptVars, email_call, cft>>

SpecParse == InitParse /\ [][ParseYearsInput]_vars

ParseDone == parse_call.state \in {"returned", "raised"}

\* the text's item number i names year y: it is the digits of y, or a
\* range "lo-hi" of digits with lo <= y <= hi
ItemNames(part, y) ==
    /\ part.digits
    /\ part.a <= y
    /\ y <= part.b

\* C22: parse_years_input returns (it does not raise) a strictly ascending
\* list, hence one without duplicates, holding exactly the years of
\* [2000, 2100] that some comma-separated item names; malformed items and
\* years out of range contribute nothing.
C22_ReturnsNamedYearsAscending ==
    ParseDone =>
        LET ys == parse_call.years
            parts == YearParts(parse_call.text)
        IN  /\ parse_call.state = "returned"
            /\ \A i \in 1..(Len(ys) - 1) : ys[i] < ys[i + 1]
            /\ \A y \in (MinYear - 2)..(MaxYear + 2) :
                  y \in Range(ys) <=>
                      /\ MinYear <= y
                      /\ y <= MaxYear
                      /\ \E i \in 1..Len(parts) : ItemNames(parts[i], y)

(***************************************************************************)
(* validate_email_list on its own.                                         *)
(***************************************************************************)
OtherAddress == <<"x", "@", "y", ".", "z">>

\* items of the recipients text the helper is explored with: two
\* addresses, one with blanks around, an empty and a blank item, and items
\* that are no address (no "@", no ".", a blank inside, two "@", nothing
\* before the "@")
EmailItems ==
    {GoodAddress, OtherAddress, <<" ">> \o GoodAddress \o <<" ">>,
     <<>>, <<" ">>,
     BadAddress,
     <<"a", "@", "b">>,
     <<"a", " ", "b", "@", "c", ".", "d">>,
     <<"a", "@", "@", "b", ".", "c">>,
     <<"@", "b", ".", "c">>}

\* the texts: up to MaxItems items with "," or ";" between neighbours
EmailTexts ==
    UNION {{[EmailIdle EXCEPT !.items = items, !.raw = Join(items, seps),
                              !.state = "called"] :
               items \in [1..n -> EmailItems],
               seps \in [1..(n - 1) -> {",", ";"}]} : n \in 0..MaxItems}

InitEmail ==
    /\ ScriptAtRest
    /\ parse_call = ParseIdle
    /\ cft = CftIdle
    /\ email_call \in EmailTexts

\* the call validate_email_list(raw), lines 86-91
ValidateEmailList ==
    /\ email_call.state = "called"
    /\ LET r == ValidateEmails(email_call.raw)
       IN  email_call' =
               [email_call EXCEPT
                   !.state = IF r.raised THEN "raised" ELSE "returned",
                   !.emails = r.emails,
                   !.bad = r.bad]
    /\ UNCHANGED <<scriptVars, parse_call, cft>>

SpecEmail == InitEmail /\ [][ValidateEmailList]_vars

EmailDone == email_call.state \in {"returned", "raised"}

RECURSIVE Trimmed(_)
\* the items of the text that are not blank, trimmed, in input order
Trimmed(items) ==
    IF items = <<>> THEN <<>>
    ELSE IF Strip(Head(items)) = <<>> THEN Trimmed(Tail(items))
    ELSE <<Strip(Head(items))>> \o Trimmed(Tail(items))

\* the trimmed items that are no valid address
InvalidItems(items) ==
    {e \in Range(Trimmed(items)) : ~EmailMatches(e)}

\* C23: given items separated by "," or ";", validate_email_list raises an
\* error naming every item that is not a valid address when at least one is
\* invalid (and names nothing else), and otherwise returns all non-empty
\* trimmed items in input order; a returned list holds no invalid address.
C23_RaisesNamingAllInvalidElseReturnsAll ==
    EmailDone =>
        /\ InvalidItems(email_call.items) # {} =>
              /\ email_call.state = "raised"
              /\ Range(email_call.bad) = InvalidItems(email_call.items)
        /\ InvalidItems(email_call.items) = {} =>
              /\ email_call.state = "returned"
              /\ email_call.emails = Trimmed(email_call.items)
        /\ email_call.state = "returned" =>
              \A k \in 1..Len(email_call.emails) :
                  EmailMatches(email_call.emails[k])

\* C23 witness: two different items of the text are no address, the call
\* raised and named both.
C23_Witness ==
    /\ email_call.state = "raised"
    /\ Cardinality(InvalidItems(email_call.items)) = 2
    /\ Len(email_call.bad) = 2

(***************************************************************************)
(* _ensure_cft on its own: up to MaxCalls calls on a cache directory that  *)
(* earlier processes may have filled, wholly or in part.                   *)
(***************************************************************************)
CacheDirs == [chrome : Layouts \cup {NoBin}, driver : Layouts \cup {NoBin}]

InitCft ==
    /\ ScriptAtRest
    /\ parse_call = ParseIdle
    /\ email_call = EmailIdle
    /\ cft \in {[CftIdle EXCEPT !.tag = t, !.cache = c] :
                   t \in Tags, c \in [Versions -> CacheDirs]}

\* one call of _ensure_cft(), lines 150-275
EnsureCft ==
    /\ cft.calls < MaxCalls
    /\ \E env \in CftEnvs :
          LET r == ensure_cft(cft.cache, cft.tag, env)
              v == r.version
          IN  cft' = [cft EXCEPT
                  !.cache = r.cache,
                  !.calls = cft.calls + 1,
                  !.first = IF r.outcome = "returned" /\ cft.first[v] = NoReturn
                            THEN [cft.first EXCEPT ![v] = r.ret]
                            ELSE cft.first,
                  !.after_success =
                      v # "none" /\ cft.first[v] # NoReturn,
                  !.last = [r EXCEPT !.cache = <<>>]]
    /\ UNCHANGED <<scriptVars, parse_call, email_call>>

SpecCft == InitCft /\ [][EnsureCft]_vars

\* C21: a call of _ensure_cft for a version and platform tag for which an
\* earlier call succeeded downloads nothing, extracts nothing and returns
\* the binary paths the first successful call returned.
C21_SecondCallReusesCache ==
    cft.after_success =>
        /\ cft.last.downloads = 0
        /\ cft.last.extractions = 0
        /\ cft.last.outcome = "returned"
        /\ cft.last.ret = cft.first[cft.last.version]

\* C21 witness: a call for a version succeeded and a later call for the
\* same version has returned both binaries.
C21_Witness ==
    /\ cft.after_success
    /\ cft.calls >= 2
    /\ cft.last.outcome = "returned"
    /\ cft.last.ret.chrome_bin # NoBin
    /\ cft.last.ret.driver_bin # NoBin

\* C24: every daily total and every ADA flag the aggregation produces is a
\* non-negative integer, for every month 1..12 and day 1..31, whatever the
\* cells of the table hold.
C24_TotalsAndFlagsNonNegative ==
    excel.state = "done" =>
        \A m \in 1..NumMonths, d \in 1..NumDays :
            /\ excel.totals[m][d] \in Nat
            /\ excel.ada[m][d] \in Nat

\* C25: during login a submit control that is not found or cannot be
\* clicked is no error: in every attempt that filled both fields the ENTER
\* keystroke is issued to the password field whether or not the control
\* was clicked, and unless the keystroke itself raises the attempt goes on
\* to the verification of the report page, the only place a later failure
\* of the attempt comes from.
C25_EnterSentWithOrWithoutSubmitControl ==
    /\ exc.at # "no_submit_control"
    /\ pc = "login_report" => lg.enter_sent
    /\ (pc = "login_except" /\ exc.at \notin {"no_email", "no_password"}) =>
          \/ exc.at = "enter_raised" /\ ~lg.enter_sent
          \/ exc.at \in {"drv.get(REPORT_URL)", "report element"} /\ lg.enter_sent

\* C25 witness: no submit control was clicked, the keystroke was sent and
\* the attempt is at the verification of the report page.
C25_Witness ==
    /\ pc = "login_report"
    /\ ~lg.btn_clicked
    /\ lg.enter_sent

\* C26: after the navigation to the report URL the page is reloaded at most
\* once and only when the URL indicated a login/signin page, and success is
\* reported only when the URL no longer indicates one after the reload.
C26_ReloadOnceAndRecheck ==
    /\ lg.refreshes <= 1
    /\ pc = "login_return" => ~lg.url_login

\* C27: whenever login_and_get_driver raises after it acquired a session,
\* that session has been terminated, also when the navigation to the login
\* URL or the collection of the diagnostics is what failed.
C27_SessionTerminatedBeforeRaise ==
    (pc = "top_except" /\ lg.drv # 0) => sessions[lg.drv].state # "live"

LoopEnded == pc \in {"release", "finish", "email", "done"}

\* the attachments of year y, in the order of the list
ArtifactsOf(y) ==
    LET OfYear(a) == a.year = y
    IN  SelectSeq(attachments, OfYear)

\* C28: when the year loop has ended the attachment list holds, for each
\* year, both artifacts (the raw-data export, then the spreadsheet) or
\* neither, and a year that failed or had an empty dataset has no
\* attachment and no summary row.
C28_BothArtifactsOrNeither ==
    LoopEnded =>
        \A y \in Range(years) :
            /\ ArtifactsOf(y) \in {<<>>, <<Attachment("TBN_RawData", y),
                                          Attachment("TBN_Report", y)>>}
            /\ (YearFailed(y) \/ YearEmpty(y)) =>
                  /\ ArtifactsOf(y) = <<>>
                  /\ y \notin Range(summary_rows)

\* the delivery sink was invoked by this execution: line 897 or 901 has
\* reported how the call ended
SinkInvoked ==
    \E msg \in ui : msg.text \in {"Email sent to", "Email failed"}

\* C29: the delivery sink is invoked at most once per run, only after the
\* last year has been processed and the release of the session has been
\* run, and never with an empty attachment list: the execution ends with
\* the invocation, and at most one message has been handed over.
C29_SinkOnceAfterLoopWithAttachments ==
    /\ ~SinkInvoked => mail = <<>>
    /\ SinkInvoked =>
          /\ pc = "done"
          /\ Len(mail) <= 1
          /\ idx = Len(years)
          /\ drv # 0
          /\ sessions[drv].state # "live"
          /\ attachments # <<>>
          /\ \A k \in 1..Len(mail) : mail[k].attachments = attachments

\* C29 witness: two years were processed, the session was released, and
\* one message with the four attachments has been handed over.
C29_Witness ==
    /\ SinkInvoked
    /\ Len(mail) = 1
    /\ idx = 2
    /\ Len(mail[1].attachments) = 4
    /\ sessions[drv].state = "quit"

====
